---- MODULE Spec2Model ----
(***************************************************************************)
(* FG-GPT value creation model (src/app.py): the calculation functions     *)
(* calculate_rn_metrics, calculate_vt_metrics, calculate_combined_metrics, *)
(* the "MW for $10M ARR" metric of tab 1 and the break-even section.       *)
(*                                                                         *)
(* Python's float is an IEEE-754 binary64.  It is modelled bit for bit:    *)
(* a float is [neg, m, e] with value (-1)^neg * m * 2^e, where m is zero   *)
(* or a 53-bit integer, and every operation rounds to nearest, ties to     *)
(* even.  TLC's integers are 32 bits wide, so a mantissa is a natural      *)
(* number held as a little-endian sequence of 15-bit limbs.  Exponent      *)
(* overflow, subnormals, infinities, NaN and the sign of zero are left     *)
(* out: no value of this program comes near them.                          *)
(***************************************************************************)
EXTENDS Integers, Sequences, FiniteSets, TLC

----------------------------------------------------------------------------
(* Natural numbers of any size: <<>> is 0, limb 1 is the least significant. *)

Base == 2 ^ 15

Max(S) == CHOOSE x \in S : \A y \in S : y <= x

Min2(x, y) == IF x < y THEN x ELSE y

Max2(x, y) == IF x > y THEN x ELSE y

\* the sequence of n limbs that f lists
Limbs(f, n) == SubSeq(f, 1, n)

\* without its leading zero limbs
BTrim(a) ==
    IF \A i \in 1..Len(a) : a[i] = 0 THEN <<>>
    ELSE SubSeq(a, 1, Max({i \in 1..Len(a) : a[i] # 0}))

\* limb i, zero past the end
Limb(a, i) == IF i <= Len(a) THEN a[i] ELSE 0

\* of an int 0 <= n < 2^31
BFromInt(n) == BTrim(<<n % Base, (n \div Base) % Base, n \div (Base * Base)>>)

\* back to an int, for a < 2^31
BToInt(a) == Limb(a, 1) + Base * Limb(a, 2) + Base * Base * Limb(a, 3)

\* the carry into limb i of the limb sums s: a lower limb overflowed and every
\* limb between is full
Carry(s, i) ==
    IF \E j \in 1..(i - 1) :
           s[j] >= Base /\ \A k \in (j + 1)..(i - 1) : s[k] = Base - 1
    THEN 1 ELSE 0

Carried(s) == BTrim(Limbs([i \in 1..Len(s) |-> (s[i] + Carry(s, i)) % Base], Len(s)))

LimbSums(a, b, n) == Limbs([i \in 1..n |-> Limb(a, i) + Limb(b, i)], n)

\* a + b
BAdd(a, b) == Carried(LimbSums(a, b, Max2(Len(a), Len(b)) + 1))

\* the borrow from limb i of the limb differences d
Borrow(d, i) ==
    IF \E j \in 1..(i - 1) :
           d[j] < 0 /\ \A k \in (j + 1)..(i - 1) : d[k] = 0
    THEN 1 ELSE 0

Borrowed(d) == BTrim(Limbs([i \in 1..Len(d) |-> (d[i] - Borrow(d, i)) % Base], Len(d)))

\* a - b for a >= b
BSub(a, b) == Borrowed(Limbs([i \in 1..Len(a) |-> a[i] - Limb(b, i)], Len(a)))

\* -1, 0, 1 as a < b, a = b, a > b (both trimmed)
BCmp(a, b) ==
    IF Len(a) < Len(b) THEN -1
    ELSE IF Len(a) > Len(b) THEN 1
    ELSE IF a = b THEN 0
    ELSE IF \E i \in 1..Len(a) :
                a[i] < b[i] /\ \A j \in (i + 1)..Len(a) : a[j] = b[j]
    THEN -1 ELSE 1

\* a * k for 0 <= k < Base: the low halves of the limb products, plus the high
\* halves one limb up
BMulS(a, k) ==
    BAdd(Limbs([i \in 1..Len(a) |-> (a[i] * k) % Base], Len(a)),
         Limbs([i \in 1..(Len(a) + 1) |->
                   IF i = 1 THEN 0 ELSE (a[i - 1] * k) \div Base], Len(a) + 1))

\* column k of the long multiplication a * b: the low halves of the limb
\* products a[i] * b[j] with i + j - 1 = k and the high halves of those with
\* i + j = k, summed over i from 1 to n
RECURSIVE Column(_, _, _, _)
Column(a, b, k, n) ==
    IF n = 0 THEN 0
    ELSE (IF 1 <= k + 1 - n /\ k + 1 - n <= Len(b)
          THEN (a[n] * b[k + 1 - n]) % Base ELSE 0)
         + (IF 1 <= k - n /\ k - n <= Len(b)
            THEN (a[n] * b[k - n]) \div Base ELSE 0)
         + Column(a, b, k, n - 1)

\* the columns col added up: their low halves, plus their high halves one limb up
ColumnSum(col) ==
    BAdd(Limbs([k \in 1..Len(col) |-> col[k] % Base], Len(col)),
         Limbs([k \in 1..(Len(col) + 1) |->
                   IF k = 1 THEN 0 ELSE col[k - 1] \div Base], Len(col) + 1))

\* a * b
BMul(a, b) ==
    ColumnSum(Limbs([k \in 1..(Len(a) + Len(b)) |-> Column(a, b, k, Len(a))],
                    Len(a) + Len(b)))

\* the number of bits of a
BitLen(a) ==
    IF a = <<>> THEN 0
    ELSE 15 * (Len(a) - 1)
         + CHOOSE k \in 1..15 : 2 ^ (k - 1) <= a[Len(a)] /\ a[Len(a)] < 2 ^ k

\* the limbs of a * p for p = 2^j, j < 15: no carries arise
ShlLimbs(a, p) ==
    Limbs([i \in 1..(Len(a) + 1) |->
              (IF i <= Len(a) THEN (a[i] * p) % Base ELSE 0)
              + (IF i > 1 THEN (a[i - 1] * p) \div Base ELSE 0)], Len(a) + 1)

\* a * 2^k
BShl(a, k) ==
    IF a = <<>> THEN <<>>
    ELSE BTrim(Limbs([i \in 1..(k \div 15) |-> 0], k \div 15)
               \o ShlLimbs(a, 2 ^ (k % 15)))

\* the limbs of hi \div p for p = 2^j, j < 15
ShrLimbs(hi, p) ==
    Limbs([i \in 1..Len(hi) |->
              (hi[i] \div p)
              + (IF i < Len(hi) THEN (hi[i + 1] % p) * (Base \div p) ELSE 0)],
          Len(hi))

\* a \div 2^k
BShr(a, k) ==
    IF k \div 15 >= Len(a) THEN <<>>
    ELSE BTrim(ShrLimbs(SubSeq(a, k \div 15 + 1, Len(a)), 2 ^ (k % 15)))

BIsOdd(a) == a # <<>> /\ a[1] % 2 = 1

\* [q, r] with a = q * d + r, 0 <= r < d, for d # 0.  Long division in base
\* 2^15: the digit is estimated from the leading limbs, then corrected.
RECURSIVE DigitDown(_, _, _)
DigitDown(r, d, q) ==
    IF BCmp(BMulS(d, q), r) > 0 THEN DigitDown(r, d, q - 1) ELSE q

RECURSIVE DigitUp(_, _, _)
DigitUp(r, d, q) ==
    IF q < Base - 1 /\ BCmp(BMulS(d, q + 1), r) <= 0
    THEN DigitUp(r, d, q + 1) ELSE q

\* the leading limbs of r over the leading limb of d (n = Len(d))
Estimate(r, d, n) ==
    Min2(Base - 1,
         (IF Len(r) > n THEN r[n + 1] * Base + r[n] ELSE r[n]) \div d[n])

Digit(r, d) ==
    IF BCmp(r, d) < 0 THEN 0
    ELSE DigitUp(r, d, DigitDown(r, d, Estimate(r, d, Len(d))))

RECURSIVE BDivStep(_, _, _, _, _)
\* the quotient digit g is found: on to limb i - 1
BDivNext(a, i, d, q, r1, g) ==
    IF g = 0
    THEN BDivStep(a, i - 1, d, <<0>> \o q, r1)
    ELSE BDivStep(a, i - 1, d, <<g>> \o q, BSub(r1, BMulS(d, g)))

\* limb i of a is brought down to the remainder
BDivDigit(a, i, d, q, r1) == BDivNext(a, i, d, q, r1, Digit(r1, d))

BDivStep(a, i, d, q, r) ==
    IF i = 0 THEN [q |-> BTrim(q), r |-> r]
    ELSE BDivDigit(a, i, d, q, BTrim(<<a[i]>> \o r))

\* the leading Len(d) - 1 limbs of a are less than d: the division starts there
BDivMod(a, d) ==
    IF Len(a) < Len(d) THEN [q |-> <<>>, r |-> a]
    ELSE BDivStep(a, Len(a) - Len(d) + 1, d, <<>>,
                  SubSeq(a, Len(a) - Len(d) + 2, Len(a)))

----------------------------------------------------------------------------
(* IEEE-754 binary64, round to nearest, ties to even.                       *)

FZero == [neg |-> FALSE, m |-> <<>>, e |-> 0]

FIsZero(a) == a.m = <<>>

\* n \div 2^k rounds up to q + 1: the remainder is over half of 2^k, or is the
\* half and q is odd
RoundsUp(n, q, k) ==
    \/ BCmp(BSub(n, BShl(q, k)), BShl(<<1>>, k - 1)) > 0
    \/ /\ BSub(n, BShl(q, k)) = BShl(<<1>>, k - 1)
       /\ BIsOdd(q)

\* q2 is n \div 2^k rounded; rounding up may have given it a 54th bit
FRounded(neg, q2, e) ==
    IF BitLen(q2) > 53
    THEN [neg |-> neg, m |-> BShr(q2, 1), e |-> e + 1]
    ELSE [neg |-> neg, m |-> q2, e |-> e]

\* n has 53 + k bits, k > 0, and q = n \div 2^k
FRoundQuotient(neg, n, e, k, q) ==
    FRounded(neg, IF RoundsUp(n, q, k) THEN BAdd(q, <<1>>) ELSE q, e + k)

\* n has l bits
FRoundBits(neg, n, e, l) ==
    IF l <= 53
    THEN [neg |-> neg, m |-> BShl(n, 53 - l), e |-> e - (53 - l)]
    ELSE FRoundQuotient(neg, n, e, l - 53, BShr(n, l - 53))

\* the float nearest to (-1)^neg * n * 2^e
FRound(neg, n, e) ==
    IF n = <<>> THEN FZero ELSE FRoundBits(neg, n, e, BitLen(n))

\* the float of an int (|n| < 2^31: exact)
FFromInt(n) ==
    IF n = 0 THEN FZero
    ELSE FRoundBits(n < 0, BFromInt(IF n < 0 THEN -n ELSE n), 0,
                    BitLen(BFromInt(IF n < 0 THEN -n ELSE n)))

FNeg(a) == IF FIsZero(a) THEN a ELSE [a EXCEPT !.neg = ~a.neg]

\* x and y are the mantissas at the common exponent e, c compares them
FAddSigned(an, bn, x, y, e, c) ==
    IF an # bn /\ c = 0 THEN FZero
    ELSE FRound(IF an = bn \/ c > 0 THEN an ELSE bn,
                IF an = bn THEN BAdd(x, y)
                ELSE BSub(IF c > 0 THEN x ELSE y, IF c > 0 THEN y ELSE x),
                e)

FAddAligned(an, bn, x, y, e) == FAddSigned(an, bn, x, y, e, BCmp(x, y))

FAdd(a, b) ==
    IF FIsZero(a) THEN b
    ELSE IF FIsZero(b) THEN a
    ELSE FAddAligned(a.neg, b.neg,
                     BShl(a.m, a.e - Min2(a.e, b.e)),
                     BShl(b.m, b.e - Min2(a.e, b.e)),
                     Min2(a.e, b.e))

FSub(a, b) == FAdd(a, FNeg(b))

FMul(a, b) ==
    IF FIsZero(a) \/ FIsZero(b) THEN FZero
    ELSE FRound(a.neg # b.neg, BMul(a.m, b.m), a.e + b.e)

\* qr is the quotient and remainder of the shifted mantissas: 57 or 58 quotient
\* bits, and one more that says whether the division left a remainder, decide
\* the rounding
FDivRound(neg, qr, e) ==
    FRound(neg, BAdd(BShl(qr.q, 1), IF qr.r = <<>> THEN <<>> ELSE <<1>>), e)

\* a / b for b # 0 (Python raises ZeroDivisionError for b = 0: the callers below
\* model that before they divide, and no arm of the CASE takes it)
FDiv(a, b) ==
    CASE ~FIsZero(b) /\ FIsZero(a) -> FZero
      [] ~FIsZero(b) /\ ~FIsZero(a) ->
            FDivRound(a.neg # b.neg, BDivMod(BShl(a.m, 63), BShl(b.m, 7)),
                      a.e - b.e - 57)

FSign(a) == IF FIsZero(a) THEN 0 ELSE IF a.neg THEN -1 ELSE 1

\* sa, sb are the signs of a and b
FCmpSigned(a, b, sa, sb) ==
    IF sa # sb THEN (IF sa < sb THEN -1 ELSE 1)
    ELSE IF sa = 0 THEN 0
    ELSE IF a.e # b.e THEN (IF a.e < b.e THEN -sa ELSE sa)
    ELSE sa * BCmp(a.m, b.m)

FCmp(a, b) == FCmpSigned(a, b, FSign(a), FSign(b))

FLe(a, b) == FCmp(a, b) <= 0
FGt(a, b) == FCmp(a, b) > 0

\* int(a): truncation toward zero
FTrunc(a) ==
    IF FIsZero(a) THEN 0
    ELSE FSign(a) * BToInt(IF a.e >= 0 THEN BShl(a.m, a.e) ELSE BShr(a.m, -a.e))

\* q = m \div 2^k, rounded to the nearest integer, ties to even
NearestInt(m, k, q) == BToInt(q) + IF RoundsUp(m, q, k) THEN 1 ELSE 0

\* the integer that f"{a:,.0f}" prints: the nearest, ties to even, with its sign
FFormat0(a) ==
    IF FIsZero(a) THEN 0
    ELSE IF a.e >= 0 THEN FSign(a) * BToInt(BShl(a.m, a.e))
    ELSE FSign(a) * NearestInt(a.m, -a.e, BShr(a.m, -a.e))

\* the float a decimal literal n/d denotes (n, d integers, d > 0); also int / int
FRatio(n, d) == FDiv(FFromInt(n), FFromInt(d))

----------------------------------------------------------------------------
(* The tables of src/app.py.                                                *)

\* HUB_DATA[strategy][hub]['captured'], by hub code (HUB_NAMES: 1 SOUTH,
\* 2 PAN, 3 WEST)
\* HUB_DATA with the HEDGE results of SOUTH and WEST exchanged
HUB_DATA_hedge_exchanged ==
    [ALPHA |-> <<4096324, 5497859, 5555465>>,
     HEDGE |-> <<6285939, 6092589, 5118414>>]

HUB_DATA ==
    [ALPHA |-> <<4096324, 5497859, 5555465>>,
     HEDGE |-> <<5118414, 6092589, 6285939>>]

HUB_NAMES == <<"SOUTH", "PAN", "WEST">>

\* BASELINE: mae 6.0, fg_fee_rate 0.375, the capture rates 0.90 / 0.50 / 0.10
\* and annualization 1.3333 are float literals; the rest are ints.
BASELINE ==
    [mae |-> FRatio(6, 1),
     plant_capacity |-> 240,
     virtual_position |-> 100,
     fg_fee_rate |-> FRatio(375, 1000),
     high_capture |-> FRatio(90, 100),
     med_capture |-> FRatio(50, 100),
     low_capture |-> FRatio(10, 100),
     annualization |-> FRatio(13333, 10000),
     alpha_hub |-> 3,
     hedge_hub |-> 2,
     rn_high_hours |-> 1199,
     rn_med_hours |-> 836,
     rn_low_hours |-> 1460,
     rn_total_hours |-> 3495,
     rn_high_opp |-> 3525361,
     rn_med_opp |-> 849404,
     rn_low_opp |-> 512634,
     rn_total_opp |-> 4887399,
     rn_high_cap |-> 3172825,
     rn_med_cap |-> 424702,
     rn_low_cap |-> 51263,
     rn_total_cap |-> 3648790]

\* load_budget_data's default_budget, 'Year 1': the year the selectbox starts on
DefaultBudgetYear1 == 682000

----------------------------------------------------------------------------
(* The calculation functions.                                               *)

\* int * float
IMul(n, a) == FMul(FFromInt(n), a)

\* base_mae = 6.0
base_mae == FFromInt(6)

\* calculate_rn_metrics, "Hours shift based on MAE": high_hours
rn_high_hours(mae) ==
    IF FLe(mae, base_mae)
    THEN FTrunc(IMul(BASELINE.rn_high_hours,
                     FAdd(FFromInt(1), FMul(FSub(base_mae, mae), FRatio(8, 100)))))
    ELSE FTrunc(IMul(BASELINE.rn_high_hours,
                     FSub(FFromInt(1), FMul(FSub(mae, base_mae), FRatio(8, 100)))))

\* calculate_rn_metrics, "Hours shift based on MAE": low_hours
rn_low_hours(mae) ==
    IF FLe(mae, base_mae)
    THEN FTrunc(IMul(BASELINE.rn_low_hours,
                     FSub(FFromInt(1), FMul(FSub(base_mae, mae), FRatio(5, 100)))))
    ELSE FTrunc(IMul(BASELINE.rn_low_hours,
                     FAdd(FFromInt(1), FMul(FSub(mae, base_mae), FRatio(5, 100)))))

\* calculate_rn_metrics, the totals and the returned dict
rn_return(high_hours, med_hours, low_hours, high_opp, med_opp, low_opp, high_cap, med_cap, low_cap, total_cap) ==
    [high_hours |-> high_hours, med_hours |-> med_hours, low_hours |-> low_hours,
     high_opp |-> high_opp, med_opp |-> med_opp, low_opp |-> low_opp,
     high_cap |-> high_cap, med_cap |-> med_cap, low_cap |-> low_cap,
     total_cap |-> total_cap,
     total_opp |-> FAdd(FAdd(high_opp, med_opp), low_opp),
     cap_ann |-> FMul(total_cap, BASELINE.annualization)]

\* calculate_rn_metrics, total_cap = high_cap + med_cap + low_cap
rn_total_cap(high_hours, med_hours, low_hours, high_opp, med_opp, low_opp, high_cap, med_cap, low_cap) ==
    rn_return(high_hours, med_hours, low_hours, high_opp, med_opp, low_opp,
              high_cap, med_cap, low_cap,
              FAdd(FAdd(high_cap, med_cap), low_cap))

\* calculate_rn_metrics, "Apply capture rates"
rn_apply_capture_rates(high_hours, med_hours, low_hours, high_opp, med_opp, low_opp, capture_rates) ==
    rn_total_cap(high_hours, med_hours, low_hours, high_opp, med_opp, low_opp,
                 FMul(high_opp, capture_rates[1]),
                 FMul(med_opp, capture_rates[2]),
                 FMul(low_opp, capture_rates[3]))

\* calculate_rn_metrics, "Recalculate opportunity"
rn_opportunity(high_hours, med_hours, low_hours, capture_rates) ==
    rn_apply_capture_rates(
        high_hours, med_hours, low_hours,
        IF BASELINE.rn_high_hours > 0
        THEN IMul(BASELINE.rn_high_opp, FRatio(high_hours, BASELINE.rn_high_hours))
        ELSE FZero,
        IF BASELINE.rn_med_hours > 0
        THEN IMul(BASELINE.rn_med_opp, FRatio(med_hours, BASELINE.rn_med_hours))
        ELSE FZero,
        IF BASELINE.rn_low_hours > 0
        THEN IMul(BASELINE.rn_low_opp, FRatio(low_hours, BASELINE.rn_low_hours))
        ELSE FZero,
        capture_rates)

\* med_hours taken from the BASELINE record instead of the remainder of
\* rn_total_hours
rn_hours_med_fixed(high_hours, low_hours, capture_rates) ==
    rn_opportunity(high_hours, BASELINE.rn_med_hours, low_hours, capture_rates)

\* calculate_rn_metrics, med_hours = rn_total_hours - high_hours - low_hours
rn_hours(high_hours, low_hours, capture_rates) ==
    rn_opportunity(high_hours,
                   BASELINE.rn_total_hours - high_hours - low_hours,
                   low_hours, capture_rates)

\* calculate_rn_metrics(mae, capture_rates): each step hands its values to the
\* next one, in the order of the source
calculate_rn_metrics(mae, capture_rates) ==
    rn_hours(rn_high_hours(mae), rn_low_hours(mae), capture_rates)

\* capture_ratio with the baseline average left as a sum (the / 3 forgotten)
capture_ratio_base_sum(capture_rates) ==
    LET three            == FFromInt(3)
        base_avg_capture ==
            FAdd(FAdd(BASELINE.high_capture, BASELINE.med_capture),
                 BASELINE.low_capture)
        new_avg_capture  ==
            FDiv(FAdd(FAdd(capture_rates[1], capture_rates[2]), capture_rates[3]), three)
    IN  FDiv(new_avg_capture, base_avg_capture)

\* the capture rate scaling of calculate_vt_metrics
capture_ratio(capture_rates) ==
    LET three            == FFromInt(3)
        base_avg_capture ==
            FDiv(FAdd(FAdd(BASELINE.high_capture, BASELINE.med_capture),
                      BASELINE.low_capture), three)
        new_avg_capture  ==
            FDiv(FAdd(FAdd(capture_rates[1], capture_rates[2]), capture_rates[3]), three)
    IN  FDiv(new_avg_capture, base_avg_capture)

\* calculate_vt_metrics, mae_factor = 1 + (BASELINE['mae'] - mae) * 0.015
vt_mae_factor(mae) ==
    FAdd(FFromInt(1), FMul(FSub(BASELINE.mae, mae), FRatio(15, 1000)))

\* calculate_vt_metrics, the returned dict
vt_return(alpha_hub, hedge_hub, alpha_cap, hedge_cap) ==
    [alpha_hub |-> HUB_NAMES[alpha_hub],
     hedge_hub |-> HUB_NAMES[hedge_hub],
     alpha_cap |-> alpha_cap,
     hedge_cap |-> hedge_cap,
     total_vt |-> FAdd(alpha_cap, hedge_cap)]

\* vt_scale with hedge_cap *= capture_ratio left out
vt_scale_hedge_unscaled(alpha_hub, hedge_hub, position_ratio, mae_factor, ratio) ==
    vt_return(alpha_hub, hedge_hub,
              FMul(FMul(IMul(HUB_DATA.ALPHA[alpha_hub], position_ratio), mae_factor),
                   ratio),
              FMul(IMul(HUB_DATA.HEDGE[hedge_hub], position_ratio), mae_factor))

\* vt_scale with alpha_cap = alpha_base * position_ratio left out
vt_scale_alpha_unscaled(alpha_hub, hedge_hub, position_ratio, mae_factor, ratio) ==
    vt_return(alpha_hub, hedge_hub,
              FMul(FMul(FFromInt(HUB_DATA.ALPHA[alpha_hub]), mae_factor), ratio),
              FMul(FMul(IMul(HUB_DATA.HEDGE[hedge_hub], position_ratio), mae_factor),
                   ratio))

\* vt_scale with alpha_base read at the baseline's alpha hub
vt_scale_alpha_hub_fixed(alpha_hub, hedge_hub, position_ratio, mae_factor, ratio) ==
    vt_return(alpha_hub, hedge_hub,
              FMul(FMul(IMul(HUB_DATA.ALPHA[BASELINE.alpha_hub], position_ratio),
                        mae_factor),
                   ratio),
              FMul(FMul(IMul(HUB_DATA.HEDGE[hedge_hub], position_ratio), mae_factor),
                   ratio))

\* calculate_vt_metrics, the base captured values scaled by the position ratio,
\* the mae factor and the capture ratio (*=, in that order)
vt_scale(alpha_hub, hedge_hub, position_ratio, mae_factor, ratio) ==
    vt_return(alpha_hub, hedge_hub,
              FMul(FMul(IMul(HUB_DATA.ALPHA[alpha_hub], position_ratio), mae_factor),
                   ratio),
              FMul(FMul(IMul(HUB_DATA.HEDGE[hedge_hub], position_ratio), mae_factor),
                   ratio))

\* calculate_vt_metrics(mae, capture_rates, position_mw, alpha_hub, hedge_hub)
calculate_vt_metrics(mae, capture_rates, position_mw, alpha_hub, hedge_hub) ==
    vt_scale(alpha_hub, hedge_hub,
             FRatio(position_mw, BASELINE.virtual_position),
             vt_mae_factor(mae),
             capture_ratio(capture_rates))

\* calculate_combined_metrics with total_value taking alpha_cap for total_vt
calculate_combined_metrics_alpha_only(rn_metrics, vt_metrics, fg_fee_rate, plant_capacity) ==
    LET total_value   == FAdd(rn_metrics.cap_ann, vt_metrics.alpha_cap)
        fg_revenue    == FMul(total_value, fg_fee_rate)
        client_uplift == FMul(total_value, FSub(FFromInt(1), fg_fee_rate))
        cap           == FFromInt(plant_capacity)
    IN  IF plant_capacity = 0
        THEN [raised |-> "ZeroDivisionError", line |-> 415]
        ELSE [raised |-> "",
              total_value |-> total_value,
              fg_revenue |-> fg_revenue,
              client_uplift |-> client_uplift,
              per_mw |-> FDiv(total_value, cap),
              mw_for_10m |->
                  IF FGt(fg_revenue, FZero)
                  THEN FDiv(FFromInt(10000000), FDiv(fg_revenue, cap))
                  ELSE FZero]

\* calculate_combined_metrics(rn_metrics, vt_metrics, fg_fee_rate, plant_capacity).
\* total_value / plant_capacity raises ZeroDivisionError when plant_capacity is 0,
\* before mw_for_10m is reached.
calculate_combined_metrics(rn_metrics, vt_metrics, fg_fee_rate, plant_capacity) ==
    LET total_value   == FAdd(rn_metrics.cap_ann, vt_metrics.total_vt)
        fg_revenue    == FMul(total_value, fg_fee_rate)
        client_uplift == FMul(total_value, FSub(FFromInt(1), fg_fee_rate))
        cap           == FFromInt(plant_capacity)
    IN  IF plant_capacity = 0
        THEN [raised |-> "ZeroDivisionError", line |-> 415]
        ELSE [raised |-> "",
              total_value |-> total_value,
              fg_revenue |-> fg_revenue,
              client_uplift |-> client_uplift,
              per_mw |-> FDiv(total_value, cap),
              mw_for_10m |->
                  IF FGt(fg_revenue, FZero)
                  THEN FDiv(FFromInt(10000000), FDiv(fg_revenue, cap))
                  ELSE FZero]

\* the "MW for $10M ARR" metric of tab 1: f"{combined['mw_for_10m']:,.0f} MW"
mw_for_10m_metric(combined_metrics) ==
    [label |-> "MW for $10M ARR",
     figure |-> FFormat0(combined_metrics.mw_for_10m),
     unit |-> "MW"]

\* st.warning of the break-even section's else branch
CannotCalculate == "Cannot calculate break-even: MW for $10M is zero. Adjust parameters."

\* the body of "if mw_contracted > 0:" in the break-even section.  divisions
\* are the source lines that divided by mw_contracted; line 764 raises
\* ZeroDivisionError when it evaluates 1/margin_of_safety with
\* margin_of_safety = 0.
break_even_figures(mw_contracted, fg_annual_cost) ==
    LET breakeven_per_mw == FDiv(FFromInt(fg_annual_cost), mw_contracted)
        fg_revenue_per_mw_at_scale == FDiv(FFromInt(10000000), mw_contracted)
        margin_of_safety ==
            IF FGt(breakeven_per_mw, FZero)
            THEN FDiv(fg_revenue_per_mw_at_scale, breakeven_per_mw)
            ELSE FZero
    IN  IF FIsZero(margin_of_safety)
        THEN [raised |-> "ZeroDivisionError", line |-> 764,
              shown |-> "",
              divisions |-> {744, 746, 749, 750},
              breakeven_per_mw |-> breakeven_per_mw,
              margin_of_safety |-> margin_of_safety]
        ELSE [raised |-> "", line |-> 0,
              shown |-> "figures",
              divisions |-> {744, 746, 749, 750},
              breakeven_per_mw |-> breakeven_per_mw,
              margin_of_safety |-> margin_of_safety,
              needs_pct |->
                  FMul(FDiv(FFromInt(1), margin_of_safety), FFromInt(100))]

\* the break-even section with the guard written mw_contracted >= 0: line 744
\* then divides by a zero mw_contracted
break_even_analysis_ge(combined_metrics, fg_annual_cost) ==
    LET mw_contracted == combined_metrics.mw_for_10m
    IN  IF FLe(FZero, mw_contracted)
        THEN IF FIsZero(mw_contracted)
             THEN [raised |-> "ZeroDivisionError", line |-> 744,
                   shown |-> "", divisions |-> {744}]
             ELSE break_even_figures(mw_contracted, fg_annual_cost)
        ELSE [raised |-> "", line |-> 0,
              shown |-> CannotCalculate,
              divisions |-> {}]

\* the break-even analysis section of tab 1
break_even_analysis(combined_metrics, fg_annual_cost) ==
    LET mw_contracted == combined_metrics.mw_for_10m
    IN  IF FGt(mw_contracted, FZero)
        THEN break_even_figures(mw_contracted, fg_annual_cost)
        ELSE [raised |-> "", line |-> 0,
              shown |-> CannotCalculate,
              divisions |-> {}]

----------------------------------------------------------------------------
\* Access control and budget loading.

ACCESS_PASSWORD == "FG2026!"

\* default_budget of load_budget_data
DefaultBudgetYear2 == 1404700
DefaultBudgetYear3 == 2076800
Years == {"Year 1", "Year 2", "Year 3"}
default_budget ==
    [y \in Years |->
        CASE y = "Year 1" -> DefaultBudgetYear1
          [] y = "Year 2" -> DefaultBudgetYear2
          [] y = "Year 3" -> DefaultBudgetYear3]

\* What load_budget_data finds at filepath.  A cell of the sheet is NaN (an
\* empty cell), a number (whole dollars), or a text; a row is the sequence of
\* its cells, row[1] being row.iloc[0].
NaN == [cell |-> "NaN"]
Number(n) == [cell |-> "number", value |-> n]
Text(t) == [cell |-> "text", text |-> t]

\* 'TOTAL BUDGET' in str(row.iloc[0]): str of an empty cell is 'nan', str of a
\* number is its digits, and the texts of the model that hold the words are
\* listed
TotalBudgetLabels == {"TOTAL BUDGET", "GRAND TOTAL BUDGET ($)"}
is_total_budget(c) == c.cell = "text" /\ c.text \in TotalBudgetLabels

\* pd.notna(c)
notna(c) == c.cell # "NaN"

\* the texts float() parses, with the number each denotes
NumericTexts == [t \in {"750000"} |-> 750000]

\* float(c) of a cell that is not NaN: the number itself, the number a numeric
\* text denotes, ValueError for any other text
float_cell(c) ==
    IF c.cell = "number" THEN [raised |-> "", value |-> c.value]
    ELSE IF c.text \in DOMAIN NumericTexts
         THEN [raised |-> "", value |-> NumericTexts[c.text]]
         ELSE [raised |-> "ValueError"]

\* row.iloc[i]: IndexError past the row's last cell
iloc(row, i) ==
    IF i + 1 <= Len(row) THEN [raised |-> "", cell |-> row[i + 1]]
    ELSE [raised |-> "IndexError"]

\* float(row.iloc[i]) if pd.notna(row.iloc[i]) else default
year_figure(row, i, default) ==
    IF iloc(row, i).raised # "" THEN iloc(row, i)
    ELSE IF notna(iloc(row, i).cell) THEN float_cell(iloc(row, i).cell)
    ELSE [raised |-> "", value |-> default]

\* the dict returned for the TOTAL BUDGET row, or the first exception that
\* building it raises (Year 1, Year 2, Year 3 are evaluated in that order)
total_budget_row(row) ==
    IF year_figure(row, 2, DefaultBudgetYear1).raised # ""
    THEN [raised |-> year_figure(row, 2, DefaultBudgetYear1).raised]
    ELSE IF year_figure(row, 3, DefaultBudgetYear2).raised # ""
    THEN [raised |-> year_figure(row, 3, DefaultBudgetYear2).raised]
    ELSE IF year_figure(row, 4, DefaultBudgetYear3).raised # ""
    THEN [raised |-> year_figure(row, 4, DefaultBudgetYear3).raised]
    ELSE [raised |-> "",
          budget |-> [y \in Years |->
              CASE y = "Year 1" -> year_figure(row, 2, DefaultBudgetYear1).value
                [] y = "Year 2" -> year_figure(row, 3, DefaultBudgetYear2).value
                [] y = "Year 3" -> year_figure(row, 4, DefaultBudgetYear3).value]]

\* for idx, row in df.iterrows(): the first row whose first cell holds
\* 'TOTAL BUDGET' returns; a row without cells raises IndexError at iloc[0]
RECURSIVE find_total_budget(_, _)
find_total_budget(rows, idx) ==
    IF idx > Len(rows) THEN [raised |-> "", budget |-> default_budget]
    ELSE IF iloc(rows[idx], 0).raised # "" THEN [raised |-> "IndexError"]
    ELSE IF is_total_budget(rows[idx][1]) THEN total_budget_row(rows[idx])
    ELSE find_total_budget(rows, idx + 1)

\* the body of the try block of load_budget_data
read_budget(filepath) ==
    IF ~filepath.exists THEN [raised |-> "", budget |-> default_budget]
    ELSE IF ~filepath.excel THEN [raised |-> "ValueError"]
    ELSE IF ~filepath.summary_sheet THEN [raised |-> "ValueError"]
    ELSE find_total_budget(filepath.rows, 1)

\* load_budget_data with the except clause left out
load_budget_data_no_except(filepath) == read_budget(filepath)

\* load_budget_data(filepath): except Exception returns default_budget
load_budget_data(filepath) ==
    IF read_budget(filepath).raised # ""
    THEN [raised |-> "", budget |-> default_budget]
    ELSE read_budget(filepath)

----------------------------------------------------------------------------
\* The tabs' other calls of the pipeline.

\* tab 2, st.metric("RN $/MW/Year", f"${rn['cap_ann']/plant_capacity:,.0f}")
rn_per_mw_metric(rn_metrics, plant_capacity) ==
    IF plant_capacity = 0
    THEN [raised |-> "ZeroDivisionError", line |-> 929]
    ELSE [raised |-> "",
          label |-> "RN $/MW/Year",
          value |-> FDiv(rn_metrics.cap_ann, FFromInt(plant_capacity)),
          figure |-> FFormat0(FDiv(rn_metrics.cap_ann, FFromInt(plant_capacity)))]

\* calculate_scenarios: the scenarios dict, rates in percent
scenarios ==
    <<[name |-> "Very Conservative", high |-> 70, med |-> 30, low |-> 0],
      [name |-> "Conservative", high |-> 80, med |-> 40, low |-> 5],
      [name |-> "Base Case", high |-> 90, med |-> 50, low |-> 10],
      [name |-> "Optimistic", high |-> 95, med |-> 60, low |-> 15],
      [name |-> "Aggressive", high |-> 98, med |-> 70, low |-> 20]>>

\* calculate_scenarios: results.append({...}); the three percent columns are
\* the rates of the scenarios dict
scenario_row(rates, rn_metrics, vt_metrics, combined_metrics) ==
    [Scenario |-> rates.name,
     High |-> rates.high, Medium |-> rates.med, Low |-> rates.low,
     RN_Captured |-> rn_metrics.cap_ann,
     VT_Captured |-> vt_metrics.total_vt,
     Total_Value |-> combined_metrics.total_value,
     FG_Revenue |-> combined_metrics.fg_revenue,
     per_mw |-> combined_metrics.per_mw]

\* calculate_scenarios: combined = calculate_combined_metrics(rn, vt, 0.375, plant_capacity)
scenario_combined(rates, rn_metrics, vt_metrics, plant_capacity) ==
    scenario_row(rates, rn_metrics, vt_metrics,
                 calculate_combined_metrics(rn_metrics, vt_metrics,
                                            FRatio(375, 1000), plant_capacity))

\* calculate_scenarios: one pass of the loop
scenario_result(rates, capture_rates, mae, position_mw, alpha_hub, hedge_hub, plant_capacity) ==
    scenario_combined(rates,
                      calculate_rn_metrics(mae, capture_rates),
                      calculate_vt_metrics(mae, capture_rates, position_mw,
                                           alpha_hub, hedge_hub),
                      plant_capacity)

\* calculate_scenarios(mae, position_mw, alpha_hub, hedge_hub, plant_capacity)
calculate_scenarios(mae, position_mw, alpha_hub, hedge_hub, plant_capacity) ==
    [i \in DOMAIN scenarios |->
        scenario_result(scenarios[i],
                        <<FRatio(scenarios[i].high, 100),
                          FRatio(scenarios[i].med, 100),
                          FRatio(scenarios[i].low, 100)>>,
                        mae, position_mw, alpha_hub, hedge_hub, plant_capacity)]

\* tab 4, MAE Sensitivity
mae_range == <<3, 4, 5, 6, 7, 8, 9, 10>>

\* mae_results.append({...}); 'MAE' and 'High Threshold' print m and 2*m
mae_result(m, rn_m, comb_m, plant_capacity) ==
    [MAE |-> m,
     High_Threshold |-> 2 * m,
     RN_per_mw |-> FDiv(rn_m.cap_ann, FFromInt(plant_capacity)),
     Combined_per_mw |-> comb_m.per_mw]

\* comb_m = calculate_combined_metrics(rn_m, vt_m, fg_fee_rate, plant_capacity)
mae_combined(m, rn_m, vt_m, fg_fee_rate, plant_capacity) ==
    mae_result(m, rn_m,
               calculate_combined_metrics(rn_m, vt_m, fg_fee_rate, plant_capacity),
               plant_capacity)

\* one pass of the loop "for m in mae_range"; m is an int, which the
\* arithmetic converts to float
mae_sensitivity_pass(m, capture_rates, virtual_position, alpha_hub, hedge_hub, fg_fee_rate, plant_capacity) ==
    mae_combined(m,
                 calculate_rn_metrics(FFromInt(m), capture_rates),
                 calculate_vt_metrics(FFromInt(m), capture_rates, virtual_position,
                                      alpha_hub, hedge_hub),
                 fg_fee_rate, plant_capacity)

\* the loop started at the second level: for m in mae_range[1:]
mae_sensitivity_from_second(capture_rates, virtual_position, alpha_hub, hedge_hub, fg_fee_rate, plant_capacity) ==
    [i \in 1 .. (Len(mae_range) - 1) |->
        mae_sensitivity_pass(mae_range[i + 1], capture_rates, virtual_position,
                             alpha_hub, hedge_hub, fg_fee_rate, plant_capacity)]

\* the MAE Sensitivity loop: mae_results
mae_sensitivity(capture_rates, virtual_position, alpha_hub, hedge_hub, fg_fee_rate, plant_capacity) ==
    [i \in DOMAIN mae_range |->
        mae_sensitivity_pass(mae_range[i], capture_rates, virtual_position,
                             alpha_hub, hedge_hub, fg_fee_rate, plant_capacity)]

\* tab 1, "Calculate baseline for comparison": baseline_combined
baseline_comparison ==
    calculate_combined_metrics(
        calculate_rn_metrics(BASELINE.mae,
            <<BASELINE.high_capture, BASELINE.med_capture, BASELINE.low_capture>>),
        calculate_vt_metrics(BASELINE.mae,
            <<BASELINE.high_capture, BASELINE.med_capture, BASELINE.low_capture>>,
            BASELINE.virtual_position, BASELINE.alpha_hub, BASELINE.hedge_hub),
        BASELINE.fg_fee_rate, BASELINE.plant_capacity)

----------------------------------------------------------------------------
\* The script as a state machine.  pc is the place the current run has
\* reached.  Spec is one run from the CALCULATIONS block to the end of the
\* break-even section, for parameters a direct call can pass; BudgetSpec is
\* the budget loading for the files it can find; Session is the whole script,
\* run after run, with the widgets' values.

VARIABLES mae, capture_rates, plant_capacity, virtual_position, fg_fee_rate,
          alpha_hub, hedge_hub, fg_annual_cost,
          pc, rn, vt, combined, metric, breakeven

\* the access keys and the nine parameters of st.session_state, what is at
\* the budget file's path, BUDGET_DATA, the interaction that started the run,
\* the results of the other tabs, and the last completed run (prev is kept to
\* compare two runs; the script keeps none)
VARIABLES access_granted, disclaimer_accepted, password_error, password_input,
          session_state, filepath, BUDGET_DATA, interaction,
          baseline_combined, rn_metric, scenario_df, mae_results, prev

vars == <<mae, capture_rates, plant_capacity, virtual_position, fg_fee_rate,
          alpha_hub, hedge_hub, fg_annual_cost,
          pc, rn, vt, combined, metric, breakeven,
          access_granted, disclaimer_accepted, password_error, password_input,
          session_state, filepath, BUDGET_DATA, interaction,
          baseline_combined, rn_metric, scenario_df, mae_results, prev>>

params == <<mae, capture_rates, plant_capacity, virtual_position, fg_fee_rate,
            alpha_hub, hedge_hub, fg_annual_cost>>

session == <<access_granted, disclaimer_accepted, password_error, password_input,
             session_state, filepath, BUDGET_DATA, interaction, prev>>

tabs == <<baseline_combined, rn_metric, scenario_df, mae_results>>

\* half-steps of mae tried below the slider's 3.0 and above its 12.0
MaeBelow == 2
MaeAbove == 2
\* parameters that differ from the first run's values in one setting
MaxVaried == 2

\* mae in half dollars: slider 3.0 .. 12.0 step 0.5, and the values outside
\* it that a direct call of the functions can pass
MaeHalves ==
    ((6 - MaeBelow) .. 5) \cup {6, 9, 12, 18, 24} \cup (25 .. (24 + MaeAbove))
\* fee in percent: slider 20 .. 50, and 0 and 100 for direct calls
FeePcts == {0, 20, 37, 50, 100}
\* plant capacity: number_input 50 .. 500, and 0 for direct calls
PlantCapacities == {0, 120, 240}
\* virtual position: number_input 10 .. 300, and 0 for direct calls
VirtualPositions == {0, 100, 200}
\* capture rates in percent: the base case and two more of the scenarios
CapturePcts == {<<90, 50, 10>>, <<70, 30, 0>>, <<98, 70, 20>>}
Hubs == DOMAIN HUB_NAMES
\* annual budget: Year 1 default, the Custom default, and a sheet holding 0
AnnualCosts == {0, DefaultBudgetYear1, 2500000}

\* what the widgets hold on the first run (init_session_state, Year 1)
FirstRun ==
    [mae2 |-> 12, fee_pct |-> 37, plant_capacity |-> BASELINE.plant_capacity,
     virtual_position |-> BASELINE.virtual_position, capture |-> <<90, 50, 10>>,
     alpha_hub |-> BASELINE.alpha_hub, hedge_hub |-> BASELINE.hedge_hub,
     fg_annual_cost |-> DefaultBudgetYear1]

Varied(x) == Cardinality({f \in DOMAIN FirstRun : x[f] # FirstRun[f]})

Settings ==
    {x \in [mae2 : MaeHalves, fee_pct : FeePcts, plant_capacity : PlantCapacities,
            virtual_position : VirtualPositions, capture : CapturePcts,
            alpha_hub : Hubs, hedge_hub : Hubs, fg_annual_cost : AnnualCosts] :
        Varied(x) <= MaxVaried}

None == [raised |-> "none"]

\* the budget file is not there
Absent == [exists |-> FALSE]

\* the run was started by no widget of the sidebar
NoMove == [widget |-> "none"]

\* a run that starts at the CALCULATIONS block: access was granted, the
\* budget is the default, no other tab has run
Direct ==
    /\ access_granted = TRUE
    /\ disclaimer_accepted = TRUE
    /\ password_error = FALSE
    /\ password_input = ACCESS_PASSWORD
    /\ session_state = <<>>
    /\ filepath = Absent
    /\ BUDGET_DATA = default_budget
    /\ interaction = NoMove
    /\ baseline_combined = None
    /\ rn_metric = None
    /\ scenario_df = None
    /\ mae_results = None
    /\ prev = None

Init ==
    \E x \in Settings :
        /\ mae = FRatio(x.mae2, 2)
        /\ capture_rates = <<FRatio(x.capture[1], 100), FRatio(x.capture[2], 100),
                             FRatio(x.capture[3], 100)>>
        /\ plant_capacity = x.plant_capacity
        /\ virtual_position = x.virtual_position
        /\ fg_fee_rate = FRatio(x.fee_pct, 100)
        /\ alpha_hub = x.alpha_hub
        /\ hedge_hub = x.hedge_hub
        /\ fg_annual_cost = x.fg_annual_cost
        /\ pc = "rn"
        /\ rn = None
        /\ vt = None
        /\ combined = None
        /\ metric = None
        /\ breakeven = None
        /\ Direct

\* the RN call with the high capture rate scaled by the hedge hub's result
CalculateRN_hub_scaled ==
    /\ pc = "rn"
    /\ rn' = calculate_rn_metrics(mae,
                 <<FMul(capture_rates[1],
                        FRatio(HUB_DATA.HEDGE[hedge_hub],
                               HUB_DATA.HEDGE[BASELINE.hedge_hub])),
                   capture_rates[2], capture_rates[3]>>)
    /\ pc' = "vt"
    /\ UNCHANGED <<params, vt, combined, metric, breakeven, session, tabs>>

\* rn = calculate_rn_metrics(mae, capture_rates)
CalculateRN ==
    /\ pc = "rn"
    /\ rn' = calculate_rn_metrics(mae, capture_rates)
    /\ pc' = "vt"
    /\ UNCHANGED <<params, vt, combined, metric, breakeven, session, tabs>>

\* vt = calculate_vt_metrics(mae, capture_rates, virtual_position, alpha_hub, hedge_hub)
CalculateVT ==
    /\ pc = "vt"
    /\ vt' = calculate_vt_metrics(mae, capture_rates, virtual_position,
                                  alpha_hub, hedge_hub)
    /\ pc' = "combined"
    /\ UNCHANGED <<params, rn, combined, metric, breakeven, session, tabs>>

\* combined = calculate_combined_metrics(rn, vt, fg_fee_rate, plant_capacity);
\* an exception ends the run
CalculateCombined ==
    /\ pc = "combined"
    /\ combined' = calculate_combined_metrics(rn, vt, fg_fee_rate, plant_capacity)
    /\ pc' = IF combined'.raised = "" THEN "tab1" ELSE "raised"
    /\ UNCHANGED <<params, rn, vt, metric, breakeven, session, tabs>>

\* tab 1 starts with the baseline's pipeline, for the delta of its first metric
BaselineComparison ==
    /\ pc = "tab1"
    /\ baseline_combined' = baseline_comparison
    /\ pc' = "metric"
    /\ UNCHANGED <<params, rn, vt, combined, metric, breakeven, session,
                   rn_metric, scenario_df, mae_results>>

\* tab 1 shows the MW for $10M ARR metric
ShowMetric ==
    /\ pc = "metric"
    /\ metric' = mw_for_10m_metric(combined)
    /\ pc' = "breakeven"
    /\ UNCHANGED <<params, rn, vt, combined, breakeven, session, tabs>>

\* tab 1 runs the break-even section; an exception ends the run
BreakEven ==
    /\ pc = "breakeven"
    /\ breakeven' = break_even_analysis(combined, fg_annual_cost)
    /\ pc' = IF breakeven'.raised = "" THEN "done" ELSE "raised"
    /\ UNCHANGED <<params, rn, vt, combined, metric, session, tabs>>

Next ==
    \/ CalculateRN
    \/ CalculateVT
    \/ CalculateCombined
    \/ BaselineComparison
    \/ ShowMetric
    \/ BreakEven

Spec == Init /\ [][Next]_vars

----------------------------------------------------------------------------
\* Budget loading, for the files load_budget_data can find at its path.

NotExcel == [exists |-> TRUE, excel |-> FALSE]
NoSummarySheet == [exists |-> TRUE, excel |-> TRUE, summary_sheet |-> FALSE]
Sheet(rows) == [exists |-> TRUE, excel |-> TRUE, summary_sheet |-> TRUE, rows |-> rows]

\* what a year's cell of the TOTAL BUDGET row holds
YearCells == {NaN, Number(0), Number(750000), Text("750000"), Text("TBD")}

TotalRows ==
    {<<Text(l), NaN, a, b, c>> :
        l \in TotalBudgetLabels, a \in YearCells, b \in YearCells, c \in YearCells}

\* rows that are not the TOTAL BUDGET row, and rows with fewer than five cells
OtherRow == <<Text("Salaries"), NaN, Number(400000), Number(800000), Number(1200000)>>
UnlabelledRow == <<NaN, NaN, Number(1), Number(2), Number(3)>>
ShortRows ==
    {<<>>,
     <<Text("TOTAL BUDGET")>>,
     <<Text("TOTAL BUDGET"), NaN, Number(750000)>>,
     <<Text("TOTAL BUDGET"), NaN, NaN, Number(750000)>>}

Files ==
    {Absent, NotExcel, NoSummarySheet}
    \cup {Sheet(<<>>), Sheet(<<OtherRow>>), Sheet(<<UnlabelledRow, OtherRow>>)}
    \cup {Sheet(<<r>>) : r \in TotalRows \cup ShortRows}
    \cup {Sheet(<<OtherRow, r>>) : r \in TotalRows \cup ShortRows}
    \cup {Sheet(<<r, <<Text("TOTAL BUDGET"), NaN, Number(1), Number(2), Number(3)>>>>) :
             r \in TotalRows}

\* no run has happened: the run's variables hold nothing
NoRun ==
    /\ mae = None
    /\ capture_rates = None
    /\ plant_capacity = None
    /\ virtual_position = None
    /\ fg_fee_rate = None
    /\ alpha_hub = None
    /\ hedge_hub = None
    /\ fg_annual_cost = None
    /\ rn = None
    /\ vt = None
    /\ combined = None
    /\ metric = None
    /\ breakeven = None
    /\ baseline_combined = None
    /\ rn_metric = None
    /\ scenario_df = None
    /\ mae_results = None
    /\ prev = None

\* the first run that passed the gate reaches BUDGET_DATA = load_budget_data()
BudgetInit ==
    /\ filepath \in Files
    /\ BUDGET_DATA = None
    /\ access_granted = TRUE
    /\ disclaimer_accepted = TRUE
    /\ password_error = FALSE
    /\ password_input = ACCESS_PASSWORD
    /\ session_state = <<>>
    /\ interaction = NoMove
    /\ pc = "budget"
    /\ NoRun

\* BUDGET_DATA = load_budget_data(); st.cache_data returns the dict of the
\* first call to the later runs; an exception ends the run
LoadBudget ==
    /\ pc = "budget"
    /\ IF BUDGET_DATA # None
       THEN /\ pc' = "sidebar"
            /\ UNCHANGED BUDGET_DATA
       ELSE IF load_budget_data(filepath).raised = ""
       THEN /\ BUDGET_DATA' = load_budget_data(filepath).budget
            /\ pc' = "sidebar"
       ELSE /\ pc' = "raised"
            /\ UNCHANGED BUDGET_DATA
    /\ UNCHANGED <<params, rn, vt, combined, metric, breakeven, tabs,
                   access_granted, disclaimer_accepted, password_error,
                   password_input, session_state, filepath, interaction, prev>>

BudgetNext == LoadBudget

BudgetSpec == BudgetInit /\ [][BudgetNext]_vars

----------------------------------------------------------------------------
\* The whole script, run after run.  Every interaction of the user reruns it
\* from the top; st.session_state outlives the runs.

\* the keys init_session_state sets
ParamKeys ==
    {"mae", "plant_capacity", "virtual_position", "fg_fee_rate", "high_capture",
     "med_capture", "low_capture", "alpha_hub", "hedge_hub"}

\* init_session_state(): a key not in st.session_state gets its BASELINE value
init_session_state(ss) ==
    [key \in ParamKeys |-> IF key \in DOMAIN ss THEN ss[key] ELSE BASELINE[key]]

\* int(x * 100), the value the fee and capture widgets start from
int_pct(x) == FTrunc(FMul(x, FFromInt(100)))

\* the value each sidebar widget is given by st.session_state
widget_values(ss) ==
    [mae |-> ss.mae,
     plant_capacity |-> ss.plant_capacity,
     virtual_position |-> ss.virtual_position,
     fg_fee_pct |-> int_pct(ss.fg_fee_rate),
     high_pct |-> int_pct(ss.high_capture),
     med_pct |-> int_pct(ss.med_capture),
     low_pct |-> int_pct(ss.low_capture),
     alpha_hub |-> ss.alpha_hub,
     hedge_hub |-> ss.hedge_hub]

\* "Update session state": the nine keys after the sidebar
update_session_state(w) ==
    [mae |-> w.mae,
     plant_capacity |-> w.plant_capacity,
     virtual_position |-> w.virtual_position,
     fg_fee_rate |-> FRatio(w.fg_fee_pct, 100),
     high_capture |-> FRatio(w.high_pct, 100),
     med_capture |-> FRatio(w.med_pct, 100),
     low_capture |-> FRatio(w.low_pct, 100),
     alpha_hub |-> w.alpha_hub,
     hedge_hub |-> w.hedge_hub]

\* the values the session moves the widgets to: mae in half dollars within
\* the slider's 3.0 .. 12.0, and values within each other widget's range
SessionMaeHalves == {8, 12}
SessionPlantCapacities == {120, 240}
SessionVirtualPositions == {100, 150, 200}
SessionFeePcts == {20, 37}
SessionHighPcts == {70, 90}

\* widgets the session holds away from their first values at one time
MaxMoved == 1

\* the widgets on the first run
FirstWidgets == widget_values(init_session_state(<<>>))

\* widgets that are away from their first value
Moved(w) == Cardinality({f \in DOMAIN FirstWidgets : w[f] # FirstWidgets[f]})

\* one interaction moves one widget of the sidebar or presses one of its
\* buttons; the mae slider's value is written in half dollars
Move(widget, value) == [widget |-> widget, value |-> value]
Press(button) == [widget |-> button]
Moves ==
    {Move("mae", h) : h \in SessionMaeHalves}
    \cup {Move("plant_capacity", n) : n \in SessionPlantCapacities}
    \cup {Move("virtual_position", n) : n \in SessionVirtualPositions}
    \cup {Move("fg_fee_pct", n) : n \in SessionFeePcts}
    \cup {Move("high_pct", n) : n \in SessionHighPcts}
    \cup {Move("alpha_hub", n) : n \in Hubs}
    \cup {Move("hedge_hub", n) : n \in Hubs}

\* the widgets' values of a run: d, the values st.session_state gives them,
\* with the moved widget at its new value
moved_widget(d, m) ==
    IF m.widget = "mae" THEN [d EXCEPT !.mae = FRatio(m.value, 2)]
    ELSE IF m.widget \in DOMAIN d THEN [d EXCEPT ![m.widget] = m.value]
    ELSE d

\* the interactions open to the user after a run that showed the sidebar
Interactions(d) ==
    {NoMove, Press("reset"), Press("lock")}
    \cup {m \in Moves : /\ moved_widget(d, m) # d
                        /\ Moved(moved_widget(d, m)) <= MaxMoved}

\* what the user types in the password field
Passwords == {ACCESS_PASSWORD, "fg2026!", ""}

\* the year selectbox stays on its first option
year_option == "Year 1"

\* the parameters the pipeline of the run was called with
RunInputs ==
    [mae |-> mae, capture_rates |-> capture_rates,
     plant_capacity |-> plant_capacity, virtual_position |-> virtual_position,
     fg_fee_rate |-> fg_fee_rate, alpha_hub |-> alpha_hub, hedge_hub |-> hedge_hub]

SessionInit ==
    /\ access_granted = FALSE
    /\ disclaimer_accepted = FALSE
    /\ password_error = FALSE
    /\ password_input = ""
    /\ session_state = <<>>
    /\ filepath = Absent
    /\ BUDGET_DATA = None
    /\ interaction = NoMove
    /\ pc = "gate"
    /\ NoRun

\* show_access_disclaimer, step 1: the box is ticked and Continue pressed
Continue ==
    /\ pc = "gate"
    /\ ~access_granted
    /\ ~disclaimer_accepted
    /\ disclaimer_accepted' = TRUE
    /\ UNCHANGED <<params, pc, rn, vt, combined, metric, breakeven, tabs,
                   access_granted, password_error, password_input,
                   session_state, filepath, BUDGET_DATA, interaction, prev>>

\* Back returning to the disclaimer step with password_error left as it was
Back_error_kept ==
    /\ pc = "gate"
    /\ ~access_granted
    /\ disclaimer_accepted
    /\ disclaimer_accepted' = FALSE
    /\ UNCHANGED <<params, pc, rn, vt, combined, metric, breakeven, tabs,
                   access_granted, password_error, password_input,
                   session_state, filepath, BUDGET_DATA, interaction, prev>>

\* show_access_disclaimer, step 2: Back pressed
Back ==
    /\ pc = "gate"
    /\ ~access_granted
    /\ disclaimer_accepted
    /\ disclaimer_accepted' = FALSE
    /\ password_error' = FALSE
    /\ UNCHANGED <<params, pc, rn, vt, combined, metric, breakeven, tabs,
                   access_granted, password_input,
                   session_state, filepath, BUDGET_DATA, interaction, prev>>

\* Enter Application pressed with any password accepted
EnterApplication_unchecked ==
    /\ pc = "gate"
    /\ ~access_granted
    /\ disclaimer_accepted
    /\ \E typed \in Passwords :
        /\ password_input' = typed
        /\ access_granted' = TRUE
        /\ password_error' = FALSE
    /\ UNCHANGED <<params, pc, rn, vt, combined, metric, breakeven, tabs,
                   disclaimer_accepted, session_state, filepath, BUDGET_DATA,
                   interaction, prev>>

\* Enter Application with the right password leaving password_error as it was
EnterApplication_error_kept ==
    /\ pc = "gate"
    /\ ~access_granted
    /\ disclaimer_accepted
    /\ \E typed \in Passwords :
        /\ password_input' = typed
        /\ IF typed = ACCESS_PASSWORD
           THEN /\ access_granted' = TRUE
                /\ UNCHANGED password_error
           ELSE /\ password_error' = TRUE
                /\ UNCHANGED access_granted
    /\ UNCHANGED <<params, pc, rn, vt, combined, metric, breakeven, tabs,
                   disclaimer_accepted, session_state, filepath, BUDGET_DATA,
                   interaction, prev>>

\* show_access_disclaimer, step 2: Enter Application pressed
EnterApplication ==
    /\ pc = "gate"
    /\ ~access_granted
    /\ disclaimer_accepted
    /\ \E typed \in Passwords :
        /\ password_input' = typed
        /\ IF typed = ACCESS_PASSWORD
           THEN /\ access_granted' = TRUE
                /\ password_error' = FALSE
           ELSE /\ password_error' = TRUE
                /\ UNCHANGED access_granted
    /\ UNCHANGED <<params, pc, rn, vt, combined, metric, breakeven, tabs,
                   disclaimer_accepted, session_state, filepath, BUDGET_DATA,
                   interaction, prev>>

\* show_access_disclaimer returns True and the script goes on
PassGate ==
    /\ pc = "gate"
    /\ access_granted
    /\ pc' = "budget"
    /\ UNCHANGED <<params, rn, vt, combined, metric, breakeven, tabs, session>>

\* init_session_state, the sidebar with no button pressed, "Update session
\* state", and the year selected in tab 1
Sidebar ==
    /\ pc = "sidebar"
    /\ interaction \notin {Press("reset"), Press("lock")}
    /\ \E w \in {moved_widget(widget_values(init_session_state(session_state)),
                              interaction)} :
        /\ mae' = w.mae
        /\ plant_capacity' = w.plant_capacity
        /\ virtual_position' = w.virtual_position
        /\ fg_fee_rate' = FRatio(w.fg_fee_pct, 100)
        /\ capture_rates' = <<FRatio(w.high_pct, 100), FRatio(w.med_pct, 100),
                              FRatio(w.low_pct, 100)>>
        /\ alpha_hub' = w.alpha_hub
        /\ hedge_hub' = w.hedge_hub
        /\ session_state' = update_session_state(w)
    /\ fg_annual_cost' = BUDGET_DATA[year_option]
    /\ pc' = "rn"
    /\ UNCHANGED <<rn, vt, combined, metric, breakeven, tabs,
                   access_granted, disclaimer_accepted, password_error,
                   password_input, filepath, BUDGET_DATA, interaction, prev>>

\* Reset to Baseline pressed: the nine keys take their BASELINE values and the
\* script reruns
ResetToBaseline ==
    /\ pc = "sidebar"
    /\ interaction = Press("reset")
    /\ session_state' = [key \in ParamKeys |-> BASELINE[key]]
    /\ interaction' = NoMove
    /\ pc' = "gate"
    /\ UNCHANGED <<params, rn, vt, combined, metric, breakeven, tabs,
                   access_granted, disclaimer_accepted, password_error,
                   password_input, filepath, BUDGET_DATA, prev>>

\* Lock Session also putting the nine keys back to their BASELINE values
LockSession_params_reset ==
    /\ pc = "sidebar"
    /\ interaction = Press("lock")
    /\ access_granted' = FALSE
    /\ disclaimer_accepted' = FALSE
    /\ password_error' = FALSE
    /\ session_state' = [key \in ParamKeys |-> BASELINE[key]]
    /\ interaction' = NoMove
    /\ pc' = "gate"
    /\ UNCHANGED <<params, rn, vt, combined, metric, breakeven, tabs,
                   password_input, filepath, BUDGET_DATA, prev>>

\* Lock Session pressed: the access keys are cleared and the script reruns
LockSession ==
    /\ pc = "sidebar"
    /\ interaction = Press("lock")
    /\ access_granted' = FALSE
    /\ disclaimer_accepted' = FALSE
    /\ password_error' = FALSE
    /\ session_state' = init_session_state(session_state)
    /\ interaction' = NoMove
    /\ pc' = "gate"
    /\ UNCHANGED <<params, rn, vt, combined, metric, breakeven, tabs,
                   password_input, filepath, BUDGET_DATA, prev>>

\* tab 2 shows the RN $/MW/Year metric
RNMetric ==
    /\ pc = "done"
    /\ rn_metric' = rn_per_mw_metric(rn, plant_capacity)
    /\ pc' = IF rn_metric'.raised = "" THEN "scenarios" ELSE "raised"
    /\ UNCHANGED <<params, rn, vt, combined, metric, breakeven, session,
                   baseline_combined, scenario_df, mae_results>>

\* tab 4: scenario_df = calculate_scenarios(...)
Scenarios ==
    /\ pc = "scenarios"
    /\ scenario_df' = calculate_scenarios(mae, virtual_position, alpha_hub,
                                          hedge_hub, plant_capacity)
    /\ pc' = "sensitivity"
    /\ UNCHANGED <<params, rn, vt, combined, metric, breakeven, session,
                   baseline_combined, rn_metric, mae_results>>

\* the MAE Sensitivity loop given the names rn, vt and combined for its
\* rn_m, vt_m and comb_m: the main results end as the last level's
MaeSensitivity_shadowing ==
    /\ pc = "sensitivity"
    /\ mae_results' = mae_sensitivity(capture_rates, virtual_position, alpha_hub,
                                      hedge_hub, fg_fee_rate, plant_capacity)
    /\ rn' = calculate_rn_metrics(FFromInt(mae_range[Len(mae_range)]), capture_rates)
    /\ pc' = "end"
    /\ UNCHANGED <<params, vt, combined, metric, breakeven, session,
                   baseline_combined, rn_metric, scenario_df>>

\* tab 4: the MAE Sensitivity loop
MaeSensitivity ==
    /\ pc = "sensitivity"
    /\ mae_results' = mae_sensitivity(capture_rates, virtual_position, alpha_hub,
                                      hedge_hub, fg_fee_rate, plant_capacity)
    /\ pc' = "end"
    /\ UNCHANGED <<params, rn, vt, combined, metric, breakeven, session,
                   baseline_combined, rn_metric, scenario_df>>

\* the user's next interaction reruns the script: its variables start anew,
\* st.session_state stays
Rerun ==
    /\ pc \in {"end", "raised"}
    /\ interaction' \in Interactions(widget_values(session_state))
    /\ prev' = IF pc = "end"
               THEN [inputs |-> RunInputs, rn |-> rn, vt |-> vt,
                     combined |-> combined, rn_metric |-> rn_metric]
               ELSE prev
    /\ rn' = None
    /\ vt' = None
    /\ combined' = None
    /\ metric' = None
    /\ breakeven' = None
    /\ baseline_combined' = None
    /\ rn_metric' = None
    /\ scenario_df' = None
    /\ mae_results' = None
    /\ pc' = "gate"
    /\ UNCHANGED <<params, access_granted, disclaimer_accepted, password_error,
                   password_input, session_state, filepath, BUDGET_DATA>>

SessionNext ==
    \/ Continue
    \/ Back
    \/ EnterApplication
    \/ PassGate
    \/ LoadBudget
    \/ Sidebar
    \/ ResetToBaseline
    \/ LockSession
    \/ CalculateRN
    \/ CalculateVT
    \/ CalculateCombined
    \/ BaselineComparison
    \/ ShowMetric
    \/ BreakEven
    \/ RNMetric
    \/ Scenarios
    \/ MaeSensitivity
    \/ Rerun

Session == SessionInit /\ [][SessionNext]_vars

\* The two calculation functions called with every value the MAE slider can
\* give, 3.0 to 12.0 in steps of 0.5 (written in half dollars), and capture
\* rates at the base case and at both ends of the three number inputs
SliderMaeHalves == 6 .. 24
SliderCapturePcts == {<<90, 50, 10>>, <<50, 20, 0>>, <<100, 80, 30>>}

SliderInit ==
    /\ \E h \in SliderMaeHalves : mae = FRatio(h, 2)
    /\ \E c \in SliderCapturePcts :
        capture_rates = <<FRatio(c[1], 100), FRatio(c[2], 100), FRatio(c[3], 100)>>
    /\ plant_capacity = BASELINE.plant_capacity
    /\ virtual_position = BASELINE.virtual_position
    /\ fg_fee_rate = FRatio(int_pct(BASELINE.fg_fee_rate), 100)
    /\ alpha_hub = BASELINE.alpha_hub
    /\ hedge_hub = BASELINE.hedge_hub
    /\ fg_annual_cost = DefaultBudgetYear1
    /\ pc = "rn"
    /\ rn = None
    /\ vt = None
    /\ combined = None
    /\ metric = None
    /\ breakeven = None
    /\ Direct

SliderNext ==
    \/ CalculateRN
    \/ CalculateVT

SliderSpec == SliderInit /\ [][SliderNext]_vars

----------------------------------------------------------------------------
\* Properties of one run.

\* a value of the arithmetic is a number; the code has no other outcome
IsNumber(x) == DOMAIN x = {"neg", "m", "e"}

RNReturned == "cap_ann" \in DOMAIN rn
VTReturned == "total_vt" \in DOMAIN vt
CombinedReturned == combined.raised = ""
CombinedCalled == combined.raised # "none"
MetricShown == "figure" \in DOMAIN metric
BreakEvenRan == "divisions" \in DOMAIN breakeven

BaselineRates == <<BASELINE.high_capture, BASELINE.med_capture, BASELINE.low_capture>>

\* C1: for every total value and fee rate, fee 0 included, the split returned
\* by calculate_combined_metrics has fg_revenue + client_uplift equal to
\* total_value exactly, with fg_revenue = total_value x fee and
\* client_uplift = total_value - fg_revenue; fee 0 gives fg_revenue 0.
C1_FeeSplitExact ==
    CombinedReturned =>
        /\ FAdd(combined.fg_revenue, combined.client_uplift) = combined.total_value
        /\ combined.fg_revenue = FMul(combined.total_value, fg_fee_rate)
        /\ combined.client_uplift = FSub(combined.total_value, combined.fg_revenue)
        /\ FIsZero(fg_fee_rate) => FIsZero(combined.fg_revenue)

\* C2: mw_for_10m is 10,000,000 / (fg_revenue / plant_capacity) when
\* fg_revenue > 0 and plant_capacity > 0; in every other case the call returns
\* an outcome that is not a number, and does not raise.
C2_CapacityForTarget ==
    CombinedCalled =>
        /\ CombinedReturned
        /\ IF plant_capacity > 0 /\ FGt(combined.fg_revenue, FZero)
           THEN combined.mw_for_10m =
                    FDiv(FFromInt(10000000),
                         FDiv(combined.fg_revenue, FFromInt(plant_capacity)))
           ELSE ~IsNumber(combined.mw_for_10m)

\* C3: an undefined capacity-for-target or margin of safety is not held as a
\* number, and the MW for $10M ARR metric shows no figure for it.
C3_UndefinedIsNoFigure ==
    /\ (MetricShown /\ ~FGt(combined.fg_revenue, FZero)) =>
           /\ ~IsNumber(combined.mw_for_10m)
           /\ "figure" \notin DOMAIN metric
    /\ (BreakEvenRan /\ breakeven.divisions # {}
            /\ ~FGt(breakeven.breakeven_per_mw, FZero)) =>
           ~IsNumber(breakeven.margin_of_safety)

\* C4: the break-even section sets breakeven_per_mw to
\* fg_annual_cost / mw_contracted when mw_contracted > 0; when mw_contracted
\* is 0 it executes no division by mw_contracted and shows the cannot
\* calculate warning.
C4_BreakEvenGuarded ==
    BreakEvenRan =>
        IF FGt(combined.mw_for_10m, FZero)
        THEN breakeven.breakeven_per_mw =
                 FDiv(FFromInt(fg_annual_cost), combined.mw_for_10m)
        ELSE /\ breakeven.divisions = {}
             /\ breakeven.raised = ""
             /\ breakeven.shown = CannotCalculate

\* C4 witness: the section ran with mw_contracted = 0 and showed the warning
C4_ZeroMwWarned ==
    /\ pc = "done"
    /\ BreakEvenRan
    /\ FIsZero(combined.mw_for_10m)
    /\ breakeven.shown = CannotCalculate

\* C5: margin_of_safety is fg_revenue_per_mw_at_scale / breakeven_per_mw when
\* breakeven_per_mw > 0 and no number otherwise, and 1/margin_of_safety is
\* never evaluated with margin_of_safety = 0, whatever the annual budget.
C5_MarginInverseGuarded ==
    (BreakEvenRan /\ breakeven.divisions # {}) =>
        /\ IF FGt(breakeven.breakeven_per_mw, FZero)
           THEN breakeven.margin_of_safety =
                    FDiv(FDiv(FFromInt(10000000), combined.mw_for_10m),
                         breakeven.breakeven_per_mw)
           ELSE ~IsNumber(breakeven.margin_of_safety)
        /\ breakeven.raised = ""

\* the scenario composer of the specification
compose(scenario, a, b, c) ==
    CASE scenario = "RN_ONLY"  -> a
      [] scenario = "VT_ONLY"  -> FAdd(b, c)
      [] scenario = "COMBINED" -> FAdd(FAdd(a, b), c)

AtBaseline ==
    /\ mae = BASELINE.mae
    /\ capture_rates = BaselineRates
    /\ virtual_position = BASELINE.virtual_position

FAbs(a) == IF FIsZero(a) THEN a ELSE [a EXCEPT !.neg = FALSE]

\* x and y agree to nine significant digits
Close(x, y) == FLe(FAbs(FSub(x, y)), FMul(FAbs(y), FRatio(1, 1000000000)))

\* the capture rates weighted by a zone distribution z
Weighted(z, r) ==
    FAdd(FAdd(IMul(z[1], r[1]), IMul(z[2], r[2])), IMul(z[3], r[3]))

\* the unweighted mean of the capture rates over the mean of the baseline rates
MeanRatio(r) ==
    FDiv(FDiv(FAdd(FAdd(r[1], r[2]), r[3]), FFromInt(3)),
         FDiv(FAdd(FAdd(BaselineRates[1], BaselineRates[2]), BaselineRates[3]),
              FFromInt(3)))

C9_ClampedOutsideRange ==
    VTReturned =>
        LET low  == FFromInt(3)
            high == FFromInt(12)
            at(level) ==
                /\ rn = calculate_rn_metrics(level, capture_rates)
                /\ vt = calculate_vt_metrics(level, capture_rates, virtual_position,
                                             alpha_hub, hedge_hub)
        IN  /\ FGt(low, mae) => at(low)
            /\ FGt(mae, high) => at(high)

\* C10: with plant capacity 0 calculate_combined_metrics returns without a
\* divide-by-zero and the capacity-based RN annual value is zero.
C10_ZeroCapacityNoDivision ==
    (plant_capacity = 0 /\ CombinedCalled) =>
        /\ CombinedReturned
        /\ FIsZero(rn.cap_ann)


----------------------------------------------------------------------------
\* Properties of two runs of a session: the run in progress and the last
\* completed one.

\* the inputs of the pipeline that differ between the two runs
Differ ==
    IF prev = None THEN {}
    ELSE {f \in DOMAIN RunInputs : RunInputs[f] # prev.inputs[f]}

\* a and b are in the proportion of the integers p and q
Proportional(a, b, p, q) == Close(FMul(a, FFromInt(q)), FMul(b, FFromInt(p)))

\* C11: with all other inputs fixed the VT-Hedge annual value is proportional
\* to plant_capacity and does not change when only virtual_position changes.
C11_HedgePerPlantMW ==
    VTReturned =>
        /\ Differ = {"virtual_position"} => vt.hedge_cap = prev.vt.hedge_cap
        /\ Differ = {"plant_capacity"} =>
               Proportional(vt.hedge_cap, prev.vt.hedge_cap,
                            plant_capacity, prev.inputs.plant_capacity)

\* C12: with all other inputs fixed the RN annual value is proportional to
\* plant_capacity and the RN per-MW value of tab 2 does not change with it.
C12_RnPerPlantMW ==
    (rn_metric # None /\ Differ = {"plant_capacity"}) =>
        /\ Proportional(rn.cap_ann, prev.rn.cap_ann,
                        plant_capacity, prev.inputs.plant_capacity)
        /\ rn_metric.value = prev.rn_metric.value

\* C13: with all other inputs fixed the VT-Alpha annual value scales linearly
\* with virtual_position, is zero at position zero, and does not change when
\* plant_capacity changes.
C13_AlphaPerPositionMW ==
    VTReturned =>
        /\ FIsZero(calculate_vt_metrics(mae, capture_rates, 0,
                                        alpha_hub, hedge_hub).alpha_cap)
        /\ Differ = {"virtual_position"} =>
               Proportional(vt.alpha_cap, prev.vt.alpha_cap,
                            virtual_position, prev.inputs.virtual_position)
        /\ Differ = {"plant_capacity"} => vt.alpha_cap = prev.vt.alpha_cap

\* C13 witness: a run with only the position changed, 100 MW to 150 MW, has
\* its alpha value
C13_PositionMoved ==
    /\ VTReturned
    /\ Differ = {"virtual_position"}
    /\ prev.inputs.virtual_position = 100
    /\ virtual_position = 150
    /\ FGt(vt.alpha_cap, prev.vt.alpha_cap)

\* C14: two runs that differ only in alpha_hub and/or hedge_hub have the same
\* RN metrics, field by field.
C14_HubsLeaveRN ==
    (RNReturned /\ Differ # {} /\ Differ \subseteq {"alpha_hub", "hedge_hub"}) =>
        /\ rn = prev.rn
        /\ \A f \in DOMAIN rn : rn[f] = prev.rn[f]

\* C14 witness: a run with only the hedge hub changed has its RN metrics
C14_HedgeHubMoved ==
    /\ RNReturned
    /\ Differ = {"hedge_hub"}
    /\ FGt(rn.cap_ann, FZero)

\* C15: changing only alpha_hub takes alpha_cap to the value of that hub's
\* ALPHA entry (the entry itself when position, MAE and rates are the
\* baseline's, in proportion to the entries otherwise) and leaves hedge_cap
\* unchanged; changing only hedge_hub does the same with HEDGE and alpha_cap.
C15_HubSelectsEntry ==
    VTReturned =>
        LET unscaled == /\ mae = BASELINE.mae
                        /\ virtual_position = BASELINE.virtual_position
                        /\ capture_rates = BaselineRates
        IN  /\ Differ = {"alpha_hub"} =>
                /\ vt.alpha_hub = HUB_NAMES[alpha_hub]
                /\ vt.hedge_cap = prev.vt.hedge_cap
                /\ vt.alpha_cap # prev.vt.alpha_cap
                /\ Proportional(vt.alpha_cap, prev.vt.alpha_cap,
                                HUB_DATA.ALPHA[alpha_hub],
                                HUB_DATA.ALPHA[prev.inputs.alpha_hub])
                /\ unscaled => vt.alpha_cap = FFromInt(HUB_DATA.ALPHA[alpha_hub])
            /\ Differ = {"hedge_hub"} =>
                /\ vt.hedge_hub = HUB_NAMES[hedge_hub]
                /\ vt.alpha_cap = prev.vt.alpha_cap
                /\ vt.hedge_cap # prev.vt.hedge_cap
                /\ Proportional(vt.hedge_cap, prev.vt.hedge_cap,
                                HUB_DATA.HEDGE[hedge_hub],
                                HUB_DATA.HEDGE[prev.inputs.hedge_hub])
                /\ unscaled => vt.hedge_cap = FFromInt(HUB_DATA.HEDGE[hedge_hub])

\* C15 witness: a run with only the alpha hub changed, WEST to SOUTH
C15_AlphaHubMoved ==
    /\ VTReturned
    /\ Differ = {"alpha_hub"}
    /\ prev.vt.alpha_hub = "WEST"
    /\ vt.alpha_hub = "SOUTH"

\* the steps of a run from the first pipeline call to the end of the script
Calculating ==
    pc \in {"rn", "vt", "combined", "tab1", "metric", "breakeven", "done",
            "scenarios", "sensitivity"}

\* the steps of a run after the main results are there: the baseline
\* comparison, the metric, the break-even analysis, the RN figure, the
\* scenario table and the MAE sweep
AfterPipeline ==
    pc \in {"tab1", "metric", "breakeven", "done", "scenarios", "sensitivity"}

\* C16: the pipeline has no hidden state. At the end of a run, after the
\* baseline comparison, the scenario table and the MAE sweep have called the
\* same functions with other arguments, the main results are what the
\* functions give for the run's inputs, and a run with the same inputs as the
\* run before it has the same RN, VT and combined results; none of those
\* calls changes the main results, the parameters or the session state.
C16_NoHiddenState ==
    /\ [](pc = "end" =>
            /\ rn = calculate_rn_metrics(mae, capture_rates)
            /\ vt = calculate_vt_metrics(mae, capture_rates, virtual_position,
                                         alpha_hub, hedge_hub)
            /\ combined = calculate_combined_metrics(rn, vt, fg_fee_rate,
                                                     plant_capacity)
            /\ (prev # None /\ prev.inputs = RunInputs) =>
                   /\ rn = prev.rn
                   /\ vt = prev.vt
                   /\ combined = prev.combined)
    /\ [][/\ Calculating =>
                UNCHANGED <<params, session_state, access_granted,
                            disclaimer_accepted, BUDGET_DATA>>
          /\ AfterPipeline => UNCHANGED <<rn, vt, combined>>]_vars

\* C16 witness: a run with the inputs of the run before it has reached its
\* end, past the scenario table and the MAE sweep
C16_SameInputsAgain ==
    /\ pc = "end"
    /\ prev # None
    /\ prev.inputs = RunInputs
    /\ scenario_df # None
    /\ mae_results # None

\* row i of the sweep shows the figures of a pipeline run r at that level
SweepRowOf(i, r) ==
    /\ mae_results[i].RN_per_mw = r.rn_metric.value
    /\ mae_results[i].Combined_per_mw = r.combined.per_mw

\* C17: the MAE sweep gives one row per level of mae_range, in the order of
\* mae_range; the row of a level holds the figures the pipeline gives when run
\* on its own with the same parameters and that level as MAE (the run itself
\* when its MAE is the level, the run before it when only the MAE was moved
\* away from the level); the sweep leaves rn, vt and combined unchanged.
C17_SweepPerLevel ==
    /\ [](pc = "end" =>
            /\ Len(mae_results) = Len(mae_range)
            /\ \A i \in DOMAIN mae_range :
                /\ mae_results[i].MAE = mae_range[i]
                /\ mae_results[i].High_Threshold = 2 * mae_range[i]
                /\ mae = FFromInt(mae_range[i]) =>
                       SweepRowOf(i, [rn_metric |-> rn_metric, combined |-> combined])
                /\ (Differ = {"mae"} /\ prev.inputs.mae = FFromInt(mae_range[i])) =>
                       SweepRowOf(i, prev))
    /\ [][pc = "sensitivity" => UNCHANGED <<rn, vt, combined>>]_vars

\* C17 witness: the sweep has run in a run whose MAE was moved from $6 to $4,
\* both levels of the sweep
C17_SweptAfterMaeMoved ==
    /\ pc = "end"
    /\ Differ = {"mae"}
    /\ prev.inputs.mae = FFromInt(mae_range[4])
    /\ mae = FFromInt(mae_range[2])
    /\ Len(mae_results) = 8

\* the file at filepath is a workbook whose '3-Year Summary' sheet can be read
Readable ==
    IF ~filepath.exists THEN FALSE
    ELSE IF ~filepath.excel THEN FALSE
    ELSE filepath.summary_sheet

\* the rows of the sheet whose first cell holds 'TOTAL BUDGET'
TotalBudgetRows ==
    {i \in DOMAIN filepath.rows :
        /\ Len(filepath.rows[i]) > 0
        /\ is_total_budget(filepath.rows[i][1])}

\* the position in a row of the cell of a year: row.iloc[2], [3], [4]
YearCell(y) == CASE y = "Year 1" -> 3 [] y = "Year 2" -> 4 [] y = "Year 3" -> 5

\* the cell of year y is missing from row r
MissingCell(r, y) == IF Len(r) < YearCell(y) THEN TRUE ELSE r[YearCell(y)] = NaN

\* C18: load_budget_data never raises and gives a number for each of Year 1,
\* Year 2 and Year 3; it gives the defaults 682000 / 1404700 / 2076800 when the
\* file is absent, is not a workbook, has no '3-Year Summary' sheet or no
\* TOTAL BUDGET row, and the default of a year whose cell in the TOTAL BUDGET
\* row is missing.
C18_BudgetAlwaysNumeric ==
    /\ pc # "raised"
    /\ pc = "sidebar" =>
        /\ DOMAIN BUDGET_DATA = Years
        /\ \A y \in Years : BUDGET_DATA[y] \in Nat
        /\ default_budget = [y \in Years |->
               CASE y = "Year 1" -> 682000
                 [] y = "Year 2" -> 1404700
                 [] y = "Year 3" -> 2076800]
        /\ IF ~Readable THEN BUDGET_DATA = default_budget
           ELSE IF TotalBudgetRows = {} THEN BUDGET_DATA = default_budget
           ELSE \A i \in TotalBudgetRows, y \in Years :
                    (/\ \A j \in TotalBudgetRows : i <= j
                     /\ MissingCell(filepath.rows[i], y))
                    => BUDGET_DATA[y] = default_budget[y]

\* C18 witness: a sheet whose TOTAL BUDGET row has an empty Year 2 cell was
\* loaded, with the file's figure for Year 1 and the default for Year 2
C18_EmptyYearTwoLoaded ==
    /\ pc = "sidebar"
    /\ Readable
    /\ \E i \in TotalBudgetRows :
        /\ Len(filepath.rows[i]) = 5
        /\ filepath.rows[i][3] = Number(750000)
        /\ filepath.rows[i][4] = NaN
    /\ BUDGET_DATA["Year 1"] = 750000
    /\ BUDGET_DATA["Year 2"] = DefaultBudgetYear2

\* the position of WEST in HUB_NAMES
WEST == CHOOSE h \in DOMAIN HUB_NAMES : HUB_NAMES[h] = "WEST"

\* C19: for the MAE, capture rates and virtual position of a run, no hub
\* combination gives a greater alpha_cap, hedge_cap or total_vt than
\* alpha_hub = WEST with hedge_hub = WEST.
C19_WestWestMaximizes ==
    VTReturned =>
        /\ FLe(vt.alpha_cap,
               calculate_vt_metrics(mae, capture_rates, virtual_position,
                                    WEST, WEST).alpha_cap)
        /\ FLe(vt.hedge_cap,
               calculate_vt_metrics(mae, capture_rates, virtual_position,
                                    WEST, WEST).hedge_cap)
        /\ FLe(vt.total_vt,
               calculate_vt_metrics(mae, capture_rates, virtual_position,
                                    WEST, WEST).total_vt)

\* C19 witness: the VT metrics of a run with neither hub WEST, whose total is
\* below that of WEST/WEST
C19_NeitherHubWest ==
    /\ VTReturned
    /\ alpha_hub # WEST
    /\ hedge_hub # WEST
    /\ FGt(calculate_vt_metrics(mae, capture_rates, virtual_position,
                                WEST, WEST).total_vt, vt.total_vt)

\* C20: a run goes past the access gate to the dashboard body (budget
\* loading, sidebar, calculations, tabs) only with access_granted true when
\* the run starts, and access_granted stays true while the body executes;
\* access_granted goes from false to true only at the gate, with
\* disclaimer_accepted already true and the submitted password equal to
\* ACCESS_PASSWORD.
C20_BodyBehindGate ==
    [][/\ (pc = "gate" /\ pc' # "gate") => access_granted
       /\ pc' # "gate" => access_granted'
       /\ (~access_granted /\ access_granted') =>
              /\ pc = "gate"
              /\ pc' = "gate"
              /\ disclaimer_accepted
              /\ disclaimer_accepted'
              /\ password_input' = ACCESS_PASSWORD]_vars

\* C20 witness: the RN calculation of a run has returned, the disclaimer
\* accepted and the right password submitted before it
C20_CalculatedBehindGate ==
    /\ pc = "vt"
    /\ RNReturned
    /\ access_granted
    /\ disclaimer_accepted
    /\ password_input = ACCESS_PASSWORD

\* C21: in every state of a session, whatever Continue, Back, Enter
\* Application (right or wrong password) and Lock Session came before,
\* access_granted implies disclaimer_accepted, access_granted implies
\* password_error is false, and password_error implies disclaimer_accepted.
C21_GateFlags ==
    /\ access_granted => disclaimer_accepted
    /\ access_granted => ~password_error
    /\ password_error => disclaimer_accepted

\* C21 witness: a wrong password has been entered at the password step of a
\* session that was locked after a run (the nine keys are in session state)
C21_WrongPasswordAfterLock ==
    /\ pc = "gate"
    /\ session_state # <<>>
    /\ ~access_granted
    /\ disclaimer_accepted
    /\ password_error
    /\ password_input # ACCESS_PASSWORD

\* the password step of the gate is showing
PasswordStep == pc = "gate" /\ ~access_granted /\ disclaimer_accepted

\* C22: a wrong password never locks the user out. Enter Application with a
\* wrong password sets password_error and leaves disclaimer_accepted true and
\* access_granted false; with the right password, after however many failures,
\* it sets access_granted and clears password_error, and it can always be
\* pressed at the password step; Back goes to the disclaimer step and clears
\* password_error.
C22_WrongPasswordNoLockout ==
    /\ [](PasswordStep =>
            ENABLED (/\ EnterApplication
                     /\ password_input' = ACCESS_PASSWORD
                     /\ access_granted'
                     /\ ~password_error'))
    /\ [][/\ (EnterApplication /\ password_input' # ACCESS_PASSWORD) =>
                /\ password_error'
                /\ disclaimer_accepted'
                /\ ~access_granted'
                /\ PasswordStep'
          /\ (EnterApplication /\ password_input' = ACCESS_PASSWORD) =>
                /\ access_granted'
                /\ ~password_error'
          /\ Back =>
                /\ ~disclaimer_accepted'
                /\ ~password_error'
                /\ ~access_granted'
                /\ pc' = "gate"]_vars

\* C22 witness: the password step of a session's first gate after a failed
\* Enter Application
C22_FailedAttempt ==
    /\ PasswordStep
    /\ session_state = <<>>
    /\ password_error
    /\ password_input = "fg2026!"

\* the disclaimer step of the gate is showing
DisclaimerStep == pc = "gate" /\ ~access_granted /\ ~disclaimer_accepted

\* C23: Lock Session sets access_granted, disclaimer_accepted and
\* password_error to false and leaves the nine parameters of session state as
\* they were; the run that follows is at the disclaimer step, where only
\* Continue can be pressed, and while access is not granted the script stays
\* at the gate with no calculation made.
C23_LockSession ==
    /\ [][LockSession =>
            /\ ~access_granted'
            /\ ~disclaimer_accepted'
            /\ ~password_error'
            /\ DOMAIN session_state = ParamKeys
            /\ session_state' = session_state
            /\ DisclaimerStep']_vars
    /\ [](DisclaimerStep =>
            /\ ENABLED Continue
            /\ ~ENABLED EnterApplication
            /\ ~ENABLED PassGate)
    /\ [](~access_granted =>
            /\ pc = "gate"
            /\ rn = None
            /\ vt = None
            /\ combined = None
            /\ mae_results = None)

\* C23 witness: the disclaimer step of a session locked after a run in which
\* the position was 150 MW, which session state still holds
C23_LockedAfterMove ==
    /\ DisclaimerStep
    /\ ~password_error
    /\ DOMAIN session_state = ParamKeys
    /\ session_state.virtual_position = 150
    /\ prev # None

\* st.session_state holds the BASELINE value of each of the nine keys, as
\* Reset to Baseline leaves it
AtBaselineState(ss) ==
    /\ DOMAIN ss = ParamKeys
    /\ \A key \in ParamKeys : ss[key] = BASELINE[key]

\* C24: Reset to Baseline leaves the access flags as they are, and the run
\* that follows it, which starts from the BASELINE values in session state,
\* calculates with exactly the BASELINE values (fee rate 0.375 included) and
\* ends with the nine keys of session state at their BASELINE values.
C24_ResetToBaseline ==
    /\ [][ResetToBaseline =>
            /\ AtBaselineState(session_state')
            /\ UNCHANGED <<access_granted, disclaimer_accepted, password_error>>]_vars
    /\ [][(Sidebar /\ AtBaselineState(session_state)) =>
            /\ mae' = BASELINE.mae
            /\ plant_capacity' = BASELINE.plant_capacity
            /\ virtual_position' = BASELINE.virtual_position
            /\ capture_rates' = BaselineRates
            /\ alpha_hub' = BASELINE.alpha_hub
            /\ hedge_hub' = BASELINE.hedge_hub
            /\ fg_fee_rate' = BASELINE.fg_fee_rate
            /\ AtBaselineState(session_state')]_vars

\* C25: for every MAE of the slider, 3.0 to 12.0 in steps of 0.5, the
\* high_hours, med_hours and low_hours that calculate_rn_metrics returns are
\* non-negative integers whose sum is rn_total_hours, 3495; at MAE 6 they are
\* the baseline's 1199, 836 and 1460.
C25_ZoneHours ==
    RNReturned =>
        /\ rn.high_hours \in Nat
        /\ rn.med_hours \in Nat
        /\ rn.low_hours \in Nat
        /\ rn.high_hours + rn.med_hours + rn.low_hours = BASELINE.rn_total_hours
        /\ BASELINE.rn_total_hours = 3495
        /\ mae = FFromInt(6) =>
               /\ <<rn.high_hours, rn.med_hours, rn.low_hours>> = <<1199, 836, 1460>>
               /\ rn.high_hours = BASELINE.rn_high_hours
               /\ rn.med_hours = BASELINE.rn_med_hours
               /\ rn.low_hours = BASELINE.rn_low_hours

\* C25 witness: the hours returned at the top of the slider, MAE 12.0
C25_HoursAtTwelve ==
    /\ RNReturned
    /\ mae = FFromInt(12)
    /\ <<rn.high_hours, rn.med_hours, rn.low_hours>> = <<623, 974, 1898>>
====
